---- MODULE Spec2Model ----
(***************************************************************************)
(* Model of jaxtronomy/LensModel/MultiPlane/decoupled_multi_plane.py:      *)
(* the class MultiPlaneDecoupled (constructor, ray_shooting, alpha,        *)
(* hessian and the two unsupported operations); hessian takes one step per *)
(* alpha call it makes, the other methods one step.  Spec has one caller and*)
(* every constructor input; SpecConc has two threads sharing an instance   *)
(* built from fewer constructor inputs.                                    *)
(*                                                                         *)
(* Numbers are exact rationals <<n, d>> (d > 0, lowest terms); the code's  *)
(* float64 arithmetic is modelled by the exact operations it rounds.       *)
(* Redshift inputs are drawn so that no stored distance is zero: the       *)
(* configurations z_split = 0, z_source = 0 and z_split = z_source divide  *)
(* by zero and belong to the numerical edge cases the arithmetic layer     *)
(* decides (inf/nan), which the rationals do not represent.                *)
(***************************************************************************)
EXTENDS Integers, Sequences, FiniteSets, TLC

VARIABLES
    cfg,        \* <<>>, then <<the arguments the constructor was called with>>
    obj,        \* the instance: the attributes assigned so far and their values
    ctor,       \* "none" | "returned" | "raised": outcome of the constructor call
    thr         \* per thread: the call in progress or completed, and its result

vars == <<cfg, obj, ctor, thr>>

\* z_split = None (the default): no redshift given
None == 0 - 1

\* cosmo = None (the default)
NoCosmo == "None"

\* an argument the call does not have
NoArg == <<>>

\* largest redshift (in model units) the constructor inputs are drawn from
MaxZ == 3

Threads == {"t1", "t2"}

----------------------------------------------------------------------------
(* Exact rational arithmetic standing for the float64 operators + - * /.   *)

Abs(n) == IF n < 0 THEN -n ELSE n

RECURSIVE GCD(_, _)
GCD(a, b) == IF b = 0 THEN a ELSE GCD(b, a % b)

Rat(n, d) ==
    LET g == GCD(Abs(n), Abs(d))
        s == IF d < 0 THEN -1 ELSE 1
    IN  <<(s * n) \div g, (s * d) \div g>>

R(n) == <<n, 1>>

RAdd(p, q) == Rat(p[1] * q[2] + q[1] * p[2], p[2] * q[2])
RSub(p, q) == Rat(p[1] * q[2] - q[1] * p[2], p[2] * q[2])
RMul(p, q) == Rat(p[1] * q[1], p[2] * q[2])
RDiv(p, q) == Rat(p[1] * q[2], p[2] * q[1])
RPos(p) == p[1] > 0

----------------------------------------------------------------------------
(* External collaborators.                                                 *)

\* Comoving distance of a flat cosmology, strictly increasing in z;
\* cosmo = None selects the default cosmology.
ComovingDistance(cosmo, z) ==
    IF cosmo = NoCosmo THEN z * (20 - z) ELSE z * (12 - z)

\* Background.T_xy: transverse comoving distance between two redshifts
T_xy(cosmo, z_observer, z_source) ==
    R(ComovingDistance(cosmo, z_source) - ComovingDistance(cosmo, z_observer))

\* Background.d_xy: angular diameter distance between two redshifts
d_xy(cosmo, z_observer, z_source) ==
    RDiv(T_xy(cosmo, z_observer, z_source), R(1 + z_source))

\* The distance computation cannot be evaluated: a redshift is missing, or
\* the pair is unordered and the provider rejects unordered pairs.
DistanceRaises(env, z_observer, z_source) ==
    \/ z_observer = None
    \/ z_source = None
    \/ /\ z_observer # None /\ z_source # None
       /\ env.strict
       /\ z_observer > z_source

\* self.<name> = <value> for every field of attrs
SetAttr(self, attrs) == attrs @@ self

HasAttr(self, name) == name \in DOMAIN self

\* MultiPlane.__init__ (parent bookkeeping): keeps the redshift configuration;
\* a strict parent rejects a lens plane at or behind the source.
MultiPlane_init(self, a, env) ==
    IF env.strict /\ \E i \in 1..Len(a.lens_redshift_list) :
                         a.lens_redshift_list[i] >= a.z_source
    THEN [raised |-> TRUE, self |-> self]
    ELSE [raised |-> FALSE,
          self |-> SetAttr(self, [_lens_redshift_list |-> a.lens_redshift_list])]

\* One lens profile's deflection (reduced angle) at (x, y)
ProfileDerivatives(name, x, y, kw) ==
    IF name = "CONVERGENCE"
    THEN <<RMul(kw.kappa, x), RMul(kw.kappa, y)>>
    ELSE <<RAdd(RMul(kw.gamma1, x), RMul(kw.gamma2, y)),
           RSub(RMul(kw.gamma2, x), RMul(kw.gamma1, y))>>

RECURSIVE SumAlpha(_, _, _, _, _)
SumAlpha(func_list, x, y, kwargs, i) ==
    IF i = 0 THEN <<R(0), R(0)>>
    ELSE LET rest == SumAlpha(func_list, x, y, kwargs, i - 1)
             f == ProfileDerivatives(func_list[i], x, y, kwargs[i])
         IN  <<RAdd(rest[1], f[1]), RAdd(rest[2], f[2])>>

\* SinglePlane(lens_model_list)
SinglePlane(lens_model_list) == [func_list |-> lens_model_list]

\* SinglePlane.alpha: all profiles of the list summed at one position
SinglePlane_alpha(md, x, y, kwargs) ==
    SumAlpha(md.func_list, x, y, kwargs, Len(md.func_list))

\* An interpolation callable, applied to the pair of sky coordinates
Call(f, coordinates) ==
    LET tx == coordinates[1]
        ty == coordinates[2]
    IN  RAdd(RAdd(f.c0, RMul(f.cx, tx)),
             RAdd(RMul(f.cy, ty), RMul(f.cxx, RMul(tx, tx))))

Fn(c0, cx, cy, cxx) == [c0 |-> c0, cx |-> cx, cy |-> cy, cxx |-> cxx]

----------------------------------------------------------------------------
(* The class.                                                              *)

\* the instance before __init__ has assigned anything
Blank == [class |-> "MultiPlaneDecoupled"]

\* a variant with the redshifts of the main-plane-to-source distance exchanged
DistanceRatios_reversed(a, self) ==
    LET d_xy_source == d_xy(a.cosmo, 0, a.z_source)
        d_xy_lens_source == d_xy(a.cosmo, self._z_split, a.z_source)
    IN  [_reduced_to_phys |-> RDiv(d_xy_source, d_xy_lens_source),
         _deltaT_zsplit |-> d_xy(a.cosmo, 0, self._z_split),
         _deltaT_zsplit_zsource |-> T_xy(a.cosmo, self._z_split, a.z_source),
         _Ts |-> T_xy(a.cosmo, 0, a.z_source),
         _Td |-> T_xy(a.cosmo, 0, a.z_split),
         _Tds |-> T_xy(a.cosmo, a.z_source, self._z_split)]

\* a variant that places the main plane at the first lens redshift
DistanceRatios_first_lens(a, self) ==
    LET d_xy_source == d_xy(a.cosmo, 0, a.z_source)
        d_xy_lens_source == d_xy(a.cosmo, self._z_split, a.z_source)
    IN  [_reduced_to_phys |-> RDiv(d_xy_source, d_xy_lens_source),
         _deltaT_zsplit |-> d_xy(a.cosmo, 0, self._z_split),
         _deltaT_zsplit_zsource |-> T_xy(a.cosmo, self._z_split, a.z_source),
         _Ts |-> T_xy(a.cosmo, 0, a.z_source),
         _Td |-> T_xy(a.cosmo, 0, a.lens_redshift_list[1]),
         _Tds |-> T_xy(a.cosmo, self._z_split, a.z_source)]

\* __init__, lines 99-107: the distance ratios, from z_source and the stored
\* split redshift (T_d from the z_split argument)
DistanceRatios(a, self) ==
    LET d_xy_source == d_xy(a.cosmo, 0, a.z_source)
        d_xy_lens_source == d_xy(a.cosmo, self._z_split, a.z_source)
    IN  [_reduced_to_phys |-> RDiv(d_xy_source, d_xy_lens_source),
         _deltaT_zsplit |-> d_xy(a.cosmo, 0, self._z_split),
         _deltaT_zsplit_zsource |-> T_xy(a.cosmo, self._z_split, a.z_source),
         _Ts |-> T_xy(a.cosmo, 0, a.z_source),
         _Td |-> T_xy(a.cosmo, 0, a.z_split),
         _Tds |-> T_xy(a.cosmo, self._z_split, a.z_source)]

\* the first distance call of lines 99-107 that cannot be evaluated raises
DistanceRatiosRaise(a, self, env) ==
    \/ DistanceRaises(env, 0, a.z_source)
    \/ DistanceRaises(env, self._z_split, a.z_source)
    \/ DistanceRaises(env, 0, self._z_split)
    \/ DistanceRaises(env, 0, a.z_split)

\* __init__, lines 112-120: the configuration summary
Summary(self) ==
    [x0_interp |-> self._x0_interp,
     y0_interp |-> self._y0_interp,
     alpha_x_interp_foreground |-> self._alphax_interp_foreground,
     alpha_y_interp_foreground |-> self._alphay_interp_foreground,
     alpha_x_interp_background |-> self._alphax_interp_background,
     alpha_y_interp_background |-> self._alphay_interp_background,
     z_split |-> self._z_split]

\* a variant that swallows the exception of the distance computation
MultiPlaneDecoupled_init_swallow(a, env) ==
    LET s1 == SetAttr(Blank,
                [_alphax_interp_foreground |-> a.alpha_x_interp_foreground,
                 _alphay_interp_foreground |-> a.alpha_y_interp_foreground,
                 _alphax_interp_background |-> a.alpha_x_interp_background,
                 _alphay_interp_background |-> a.alpha_y_interp_background,
                 _x0_interp |-> a.x0_interp,
                 _y0_interp |-> a.y0_interp,
                 _z_split |-> a.z_split])
        p == MultiPlane_init(s1, a, env)
    IN  IF p.raised THEN p
        ELSE IF DistanceRatiosRaise(a, p.self, env)
        THEN [raised |-> FALSE, self |-> p.self]
        ELSE
        LET s2 == SetAttr(p.self, DistanceRatios(a, p.self))
            s3 == SetAttr(s2, [_main_deflector |-> SinglePlane(a.lens_model_list)])
        IN  [raised |-> FALSE,
             self |-> SetAttr(s3, [kwargs_multiplane_model |-> Summary(s3)])]

\* __init__: the result is the instance as the body left it and whether an
\* exception propagated out of it.
MultiPlaneDecoupled_init(a, env) ==
    LET s1 == SetAttr(Blank,
                [_alphax_interp_foreground |-> a.alpha_x_interp_foreground,
                 _alphay_interp_foreground |-> a.alpha_y_interp_foreground,
                 _alphax_interp_background |-> a.alpha_x_interp_background,
                 _alphay_interp_background |-> a.alpha_y_interp_background,
                 _x0_interp |-> a.x0_interp,
                 _y0_interp |-> a.y0_interp,
                 _z_split |-> a.z_split])
        p == MultiPlane_init(s1, a, env)
    IN  IF p.raised THEN p
        ELSE IF DistanceRatiosRaise(a, p.self, env)
        THEN [raised |-> TRUE, self |-> p.self]
        ELSE
        LET s2 == SetAttr(p.self, DistanceRatios(a, p.self))
            s3 == SetAttr(s2, [_main_deflector |-> SinglePlane(a.lens_model_list)])
        IN  [raised |-> FALSE,
             self |-> SetAttr(s3, [kwargs_multiplane_model |-> Summary(s3)])]

\* what a call hands back: a value, or the exception it raised
Returned(v) == [raised |-> "", value |-> v]
Raise(msg) == [raised |-> msg, value |-> <<>>]

\* Every method yields the instance as the call left it and what it returned.
\* a variant that fails only when called without arguments
geo_shapiro_delay_lenient(self, args) ==
    [self |-> self,
     ret |-> IF args = <<>>
             THEN Raise("time delays are not yet implemented for the MultiPlaneDecoupled class")
             ELSE Returned(<<R(0)>>)]

geo_shapiro_delay(self, args) ==
    [self |-> self,
     ret |-> Raise("time delays are not yet implemented for the MultiPlaneDecoupled class")]

ray_shooting_partial_comoving(self, args) ==
    [self |-> self,
     ret |-> Raise("ray_shooting_partial_comoving is not well defined for this class")]

\* a variant that evaluates the main deflector at the sky coordinate
ray_shooting_at_sky(self, theta_x, theta_y, kwargs_lens, args) ==
    LET coordinates == <<theta_x, theta_y>>
        x == Call(self._x0_interp, coordinates)
        y == Call(self._y0_interp, coordinates)
        deflection_main == SinglePlane_alpha(self._main_deflector,
                                            theta_x, theta_y, kwargs_lens)
        angle_x == RSub(Call(self._alphax_interp_foreground, coordinates),
                        RMul(deflection_main[1], self._reduced_to_phys))
        angle_y == RSub(Call(self._alphay_interp_foreground, coordinates),
                        RMul(deflection_main[2], self._reduced_to_phys))
        alpha_background_x ==
            RAdd(angle_x, Call(self._alphax_interp_background, coordinates))
        alpha_background_y ==
            RAdd(angle_y, Call(self._alphay_interp_background, coordinates))
    IN  [self |-> self,
         ret |-> Returned(
            <<RAdd(RDiv(x, self._Ts),
                   RDiv(RMul(alpha_background_x, self._Tds), self._Ts)),
              RAdd(RDiv(y, self._Ts),
                   RDiv(RMul(alpha_background_y, self._Tds), self._Ts))>>)]

\* a variant that leaves the background deflection out
ray_shooting_no_background(self, theta_x, theta_y, kwargs_lens, args) ==
    LET coordinates == <<theta_x, theta_y>>
        x == Call(self._x0_interp, coordinates)
        y == Call(self._y0_interp, coordinates)
        deflection_main == SinglePlane_alpha(self._main_deflector,
                               RDiv(x, self._Td), RDiv(y, self._Td), kwargs_lens)
        angle_x == RSub(Call(self._alphax_interp_foreground, coordinates),
                        RMul(deflection_main[1], self._reduced_to_phys))
        angle_y == RSub(Call(self._alphay_interp_foreground, coordinates),
                        RMul(deflection_main[2], self._reduced_to_phys))
    IN  [self |-> self,
         ret |-> Returned(
            <<RAdd(RDiv(x, self._Ts), RDiv(RMul(angle_x, self._Tds), self._Ts)),
              RAdd(RDiv(y, self._Ts), RDiv(RMul(angle_y, self._Tds), self._Ts))>>)]

ray_shooting(self, theta_x, theta_y, kwargs_lens, args) ==
    LET coordinates == <<theta_x, theta_y>>
        x == Call(self._x0_interp, coordinates)
        y == Call(self._y0_interp, coordinates)
        theta_x_main == RDiv(x, self._Td)
        theta_y_main == RDiv(y, self._Td)
        angle_x_foreground == Call(self._alphax_interp_foreground, coordinates)
        angle_y_foreground == Call(self._alphay_interp_foreground, coordinates)
        deflection_main == SinglePlane_alpha(self._main_deflector,
                                            theta_x_main, theta_y_main, kwargs_lens)
        deflection_x_main == RMul(deflection_main[1], self._reduced_to_phys)
        deflection_y_main == RMul(deflection_main[2], self._reduced_to_phys)
        angle_x == RSub(angle_x_foreground, deflection_x_main)
        angle_y == RSub(angle_y_foreground, deflection_y_main)
        deflection_x_background == Call(self._alphax_interp_background, coordinates)
        deflection_y_background == Call(self._alphay_interp_background, coordinates)
        alpha_background_x == RAdd(angle_x, deflection_x_background)
        alpha_background_y == RAdd(angle_y, deflection_y_background)
        beta_x == RAdd(RDiv(x, self._Ts),
                       RDiv(RMul(alpha_background_x, self._Tds), self._Ts))
        beta_y == RAdd(RDiv(y, self._Ts),
                       RDiv(RMul(alpha_background_y, self._Tds), self._Ts))
    IN  [self |-> self, ret |-> Returned(<<beta_x, beta_y>>)]

\* a variant with the difference taken the other way round
alpha_reversed(self, theta_x, theta_y, kwargs_lens, args) ==
    LET r == ray_shooting(self, theta_x, theta_y, kwargs_lens, <<>>)
    IN  [self |-> r.self,
         ret |-> Returned(<<RSub(r.ret.value[1], theta_x),
                            RSub(r.ret.value[2], theta_y)>>)]

\* a variant that notes the last coordinates on the instance
alpha_notes(self, theta_x, theta_y, kwargs_lens, args) ==
    LET r == ray_shooting(self, theta_x, theta_y, kwargs_lens, <<>>)
    IN  [self |-> SetAttr(r.self, [_theta |-> <<theta_x, theta_y>>]),
         ret |-> Returned(<<RSub(theta_x, r.ret.value[1]),
                            RSub(theta_y, r.ret.value[2])>>)]

\* a variant that keeps the first source position on the instance and reuses it
alpha_memo(self, theta_x, theta_y, kwargs_lens, args) ==
    LET r == ray_shooting(self, theta_x, theta_y, kwargs_lens, <<>>)
        beta == IF HasAttr(self, "_beta") THEN self._beta ELSE r.ret.value
    IN  [self |-> SetAttr(r.self, [_beta |-> beta]),
         ret |-> Returned(<<RSub(theta_x, beta[1]), RSub(theta_y, beta[2])>>)]

alpha(self, theta_x, theta_y, kwargs_lens, args) ==
    LET r == ray_shooting(self, theta_x, theta_y, kwargs_lens, <<>>)
        beta_x == r.ret.value[1]
        beta_y == r.ret.value[2]
        alpha_x == RSub(theta_x, beta_x)
        alpha_y == RSub(theta_y, beta_y)
    IN  [self |-> r.self, ret |-> Returned(<<alpha_x, alpha_y>>)]

\* a variant that returns the mixed derivatives in the other order
hessian_transposed(alpha_0, alpha_dx, alpha_dy, diff) ==
    Returned(<<RDiv(RSub(alpha_dx[1], alpha_0[1]), diff),
               RDiv(RSub(alpha_dx[2], alpha_0[2]), diff),
               RDiv(RSub(alpha_dy[1], alpha_0[1]), diff),
               RDiv(RSub(alpha_dy[2], alpha_0[2]), diff)>>)

\* hessian, lines 235-244: the differences of the three alpha results
\* (alpha_0 at the base point, alpha_dx and alpha_dy one step along x and y)
hessian(alpha_0, alpha_dx, alpha_dy, diff) ==
    LET alpha_ra == alpha_0[1]
        alpha_dec == alpha_0[2]
        alpha_ra_dx == alpha_dx[1]
        alpha_dec_dx == alpha_dx[2]
        alpha_ra_dy == alpha_dy[1]
        alpha_dec_dy == alpha_dy[2]
        dalpha_rara == RDiv(RSub(alpha_ra_dx, alpha_ra), diff)
        dalpha_radec == RDiv(RSub(alpha_ra_dy, alpha_ra), diff)
        dalpha_decra == RDiv(RSub(alpha_dec_dx, alpha_dec), diff)
        dalpha_decdec == RDiv(RSub(alpha_dec_dy, alpha_dec), diff)
        f_xx == dalpha_rara
        f_yy == dalpha_decdec
        f_xy == dalpha_radec
        f_yx == dalpha_decra
    IN  Returned(<<f_xx, f_xy, f_yx, f_yy>>)

----------------------------------------------------------------------------
(* Inputs.                                                                 *)

Redshifts == 1..MaxZ

\* (z_source, z_split): every pair without a zero distance, z_split possibly unset
RedshiftConfigs ==
    {zz \in Redshifts \X (Redshifts \cup {None}) : zz[1] # zz[2]}

Cosmologies == {NoCosmo, "alt"}

Environments == {[strict |-> TRUE], [strict |-> FALSE]}

LensModelLists == {<<"CONVERGENCE">>, <<"CONVERGENCE", "SHEAR">>}

LensRedshiftLists(lens_model_list) ==
    {[i \in 1..Len(lens_model_list) |-> 1],
     [i \in 1..Len(lens_model_list) |-> i + 1]}

\* what the caller tabulates the main-plane positions with
CallerTd(cosmo, z_split) ==
    IF z_split = None THEN R(1) ELSE T_xy(cosmo, 0, z_split)

\* no line-of-sight structure: straight rays up to the main plane
Unperturbed(td) ==
    [x0_interp |-> Fn(R(0), td, R(0), R(0)),
     y0_interp |-> Fn(R(0), R(0), td, R(0)),
     alpha_x_interp_foreground |-> Fn(R(0), R(0), R(0), R(0)),
     alpha_y_interp_foreground |-> Fn(R(0), R(0), R(0), R(0)),
     alpha_x_interp_background |-> Fn(R(0), R(0), R(0), R(0)),
     alpha_y_interp_background |-> Fn(R(0), R(0), R(0), R(0))]

\* a line of sight with foreground and background structure
Perturbed(td) ==
    [x0_interp |-> Fn(R(1), td, R(0), R(0)),
     y0_interp |-> Fn(R(0), R(1), td, R(0)),
     alpha_x_interp_foreground |-> Fn(R(0), R(0), R(1), R(1)),
     alpha_y_interp_foreground |-> Fn(R(1), R(0), R(0), R(0)),
     alpha_x_interp_background |-> Fn(R(2), R(1), R(0), R(0)),
     alpha_y_interp_background |-> Fn(R(0), R(0), R(3), R(0))]

LineOfSightFields(cosmo, z_split) ==
    {Unperturbed(CallerTd(cosmo, z_split)), Perturbed(CallerTd(cosmo, z_split))}

MakeArgs(zz, c, lml, lrl, los) ==
    [z_source |-> zz[1], z_split |-> zz[2], cosmo |-> c,
     lens_model_list |-> lml, lens_redshift_list |-> lrl,
     x0_interp |-> los.x0_interp, y0_interp |-> los.y0_interp,
     alpha_x_interp_foreground |-> los.alpha_x_interp_foreground,
     alpha_y_interp_foreground |-> los.alpha_y_interp_foreground,
     alpha_x_interp_background |-> los.alpha_x_interp_background,
     alpha_y_interp_background |-> los.alpha_y_interp_background]

Thetas == {<<R(0), R(1)>>, <<R(1), R(2)>>}

Diffs == {R(1), Rat(1, 2)}

\* extra positional arguments a caller may append
Extras == {<<>>, <<R(1)>>}

\* parameter sets for a lens model list: the massless one and a massive one
KwargsLens(lens_model_list) ==
    {[i \in 1..Len(lens_model_list) |->
         IF lens_model_list[i] = "CONVERGENCE" THEN [kappa |-> R(k)]
         ELSE [gamma1 |-> R(k), gamma2 |-> R(2 * k)]] : k \in {0, 1}}

EvalOps == {"ray_shooting", "alpha", "hessian"}
UnsupportedOps == {"geo_shapiro_delay", "ray_shooting_partial_comoving"}

Calls(self) ==
    {[op |-> o, theta_x |-> th[1], theta_y |-> th[2], kwargs_lens |-> kw,
      diff |-> NoArg, args |-> e] :
        o \in {"ray_shooting", "alpha"}, th \in Thetas,
        kw \in KwargsLens(self._main_deflector.func_list), e \in Extras}
    \cup
    {[op |-> "hessian", theta_x |-> th[1], theta_y |-> th[2], kwargs_lens |-> kw,
      diff |-> d, args |-> e] :
        th \in Thetas, kw \in KwargsLens(self._main_deflector.func_list),
        d \in Diffs, e \in Extras}
    \cup
    {[op |-> o, theta_x |-> NoArg, theta_y |-> NoArg, kwargs_lens |-> NoArg,
      diff |-> NoArg, args |-> e] : o \in UnsupportedOps, e \in Extras}

----------------------------------------------------------------------------
(* The state machine.                                                      *)

Idle == [state |-> "idle", call |-> NoArg, locals |-> <<>>, ret |-> NoArg]

Init ==
    /\ cfg = <<>>
    /\ obj = Blank
    /\ ctor = "none"
    /\ thr = [t \in Threads |-> Idle]

\* MultiPlaneDecoupled(...): the caller holds the instance only if __init__
\* returned normally.
ConstructFrom(redshifts, cosmologies, environments, lens_model_lists) ==
    /\ ctor = "none"
    /\ \E zz \in redshifts, c \in cosmologies, env \in environments,
          lml \in lens_model_lists :
         \E lrl \in LensRedshiftLists(lml), los \in LineOfSightFields(c, zz[2]) :
            LET a == MakeArgs(zz, c, lml, lrl, los)
                r == MultiPlaneDecoupled_init(a, env)
            IN  /\ cfg' = <<[args |-> a, env |-> env]>>
                /\ obj' = r.self
                /\ ctor' = IF r.raised THEN "raised" ELSE "returned"
    /\ UNCHANGED thr

\* a thread starts a call on the shared instance
Invoke(t) ==
    /\ ctor = "returned"
    /\ thr[t].state # "pending"
    /\ \E c \in Calls(obj) :
          thr' = [thr EXCEPT ![t] = [state |-> "pending", call |-> c, locals |-> <<>>,
                                  ret |-> NoArg]]
    /\ UNCHANGED <<cfg, obj, ctor>>

Complete(t, r) ==
    /\ obj' = r.self
    /\ thr' = [thr EXCEPT ![t] = [state |-> "done", call |-> thr[t].call,
                                  locals |-> <<>>, ret |-> r.ret]]
    /\ UNCHANGED <<cfg, ctor>>

Pending(t, op) == thr[t].state = "pending" /\ thr[t].call.op = op

Do_ray_shooting(t) ==
    /\ Pending(t, "ray_shooting")
    /\ \E r \in {ray_shooting(obj, thr[t].call.theta_x, thr[t].call.theta_y,
                              thr[t].call.kwargs_lens, thr[t].call.args)} :
          Complete(t, r)

Do_alpha(t) ==
    /\ Pending(t, "alpha")
    /\ \E r \in {alpha(obj, thr[t].call.theta_x, thr[t].call.theta_y,
                       thr[t].call.kwargs_lens, thr[t].call.args)} :
          Complete(t, r)

\* hessian, lines 218-233: one alpha call, its result kept in the locals
HessianAlpha(t, theta_x, theta_y) ==
    \E r \in {alpha(obj, theta_x, theta_y, thr[t].call.kwargs_lens, <<>>)} :
        /\ obj' = r.self
        /\ thr' = [thr EXCEPT ![t].locals = Append(@, r.ret.value)]
        /\ UNCHANGED <<cfg, ctor>>

\* alpha_ra, alpha_dec = self.alpha(theta_x, theta_y, kwargs_lens)
Do_hessian_base(t) ==
    /\ Pending(t, "hessian")
    /\ Len(thr[t].locals) = 0
    /\ HessianAlpha(t, thr[t].call.theta_x, thr[t].call.theta_y)

\* alpha_ra_dx, alpha_dec_dx = self.alpha(theta_x + diff, theta_y, kwargs_lens)
Do_hessian_dx(t) ==
    /\ Pending(t, "hessian")
    /\ Len(thr[t].locals) = 1
    /\ \E theta_x_dx \in {RAdd(thr[t].call.theta_x, thr[t].call.diff)} :
          HessianAlpha(t, theta_x_dx, thr[t].call.theta_y)

\* alpha_ra_dy, alpha_dec_dy = self.alpha(theta_x, theta_y + diff, kwargs_lens)
Do_hessian_dy(t) ==
    /\ Pending(t, "hessian")
    /\ Len(thr[t].locals) = 2
    /\ \E theta_y_dy \in {RAdd(thr[t].call.theta_y, thr[t].call.diff)} :
          HessianAlpha(t, thr[t].call.theta_x, theta_y_dy)

\* the differences, and the return
Do_hessian_return(t) ==
    /\ Pending(t, "hessian")
    /\ Len(thr[t].locals) = 3
    /\ \E r \in {hessian(thr[t].locals[1], thr[t].locals[2],
                         thr[t].locals[3], thr[t].call.diff)} :
          Complete(t, [self |-> obj, ret |-> r])

Do_geo_shapiro_delay(t) ==
    /\ Pending(t, "geo_shapiro_delay")
    /\ Complete(t, geo_shapiro_delay(obj, thr[t].call.args))

Do_ray_shooting_partial_comoving(t) ==
    /\ Pending(t, "ray_shooting_partial_comoving")
    /\ Complete(t, ray_shooting_partial_comoving(obj, thr[t].call.args))

Construct ==
    ConstructFrom(RedshiftConfigs, Cosmologies, Environments, LensModelLists)

\* the physically ordered configurations with the farthest source, default cosmology
ConstructConc ==
    ConstructFrom({zz \in RedshiftConfigs : zz[1] = MaxZ /\ zz[2] = MaxZ - 1},
                  {NoCosmo}, {[strict |-> TRUE]}, {<<"CONVERGENCE", "SHEAR">>})

Step(t) ==
    \/ Invoke(t)
    \/ Do_ray_shooting(t)
    \/ Do_alpha(t)
    \/ Do_hessian_base(t)
    \/ Do_hessian_dx(t)
    \/ Do_hessian_dy(t)
    \/ Do_hessian_return(t)
    \/ Do_geo_shapiro_delay(t)
    \/ Do_ray_shooting_partial_comoving(t)

\* one caller
Next ==
    \/ Construct
    \/ Step("t1")

Spec == Init /\ [][Next]_vars

\* two threads on the shared instance, interleaved call by call
NextConc ==
    \/ ConstructConc
    \/ \E t \in Threads : Step(t)

SpecConc == Init /\ [][NextConc]_vars

----------------------------------------------------------------------------
(* Properties.                                                             *)

Done(t, op) == thr[t].state = "done" /\ thr[t].call.op = op

Zero2 == <<R(0), R(0)>>

\* massive parameter set: some profile parameter is not zero
Massive(kwargs_lens) ==
    \E i \in 1..Len(kwargs_lens) :
        \E k \in DOMAIN kwargs_lens[i] : kwargs_lens[i][k] # R(0)

\* the source position stated in closed form, per component
\*   x/T_s + (foreground - reduced_to_phys * main((x, y)/T_d) + background) * T_ds/T_s
SourcePosition(self, theta_x, theta_y, kwargs_lens) ==
    LET th == <<theta_x, theta_y>>
        x == Call(self._x0_interp, th)
        y == Call(self._y0_interp, th)
        main == SinglePlane_alpha(self._main_deflector,
                                 RDiv(x, self._Td), RDiv(y, self._Td), kwargs_lens)
        ratio == RDiv(self._Tds, self._Ts)
        sum_x == RAdd(RSub(Call(self._alphax_interp_foreground, th),
                           RMul(self._reduced_to_phys, main[1])),
                      Call(self._alphax_interp_background, th))
        sum_y == RAdd(RSub(Call(self._alphay_interp_foreground, th),
                           RMul(self._reduced_to_phys, main[2])),
                      Call(self._alphay_interp_background, th))
    IN  <<RAdd(RDiv(x, self._Ts), RMul(sum_x, ratio)),
          RAdd(RDiv(y, self._Ts), RMul(sum_y, ratio))>>

\* theta - beta, with beta the closed form
ReducedDeflection(self, theta_x, theta_y, kwargs_lens) ==
    LET beta == SourcePosition(self, theta_x, theta_y, kwargs_lens)
    IN  <<RSub(theta_x, beta[1]), RSub(theta_y, beta[2])>>

\* C1: a completed alpha call returned exactly (theta_x - beta_x, theta_y - beta_y),
\* where (beta_x, beta_y) is what ray_shooting returns for the same coordinates
\* and parameters on the same instance.
C1_AlphaIsThetaMinusBeta ==
    \A t \in Threads :
        Done(t, "alpha") =>
            LET c == thr[t].call
                beta == ray_shooting(obj, c.theta_x, c.theta_y, c.kwargs_lens, <<>>).ret.value
            IN  thr[t].ret = Returned(<<RSub(c.theta_x, beta[1]),
                                        RSub(c.theta_y, beta[2])>>)

\* an alpha call has completed with a deflection that is not zero, for a
\* massive deflector
C1_Witness ==
    \E t \in Threads :
        /\ Done(t, "alpha")
        /\ thr[t].ret.value # Zero2
        /\ Massive(thr[t].call.kwargs_lens)

\* C2: a completed ray_shooting call returned the closed form, with the main
\* deflector evaluated at (x, y)/T_d, its deflection scaled by reduced_to_phys
\* and subtracted, and the background deflection added.
C2_RayShootingFormula ==
    \A t \in Threads :
        Done(t, "ray_shooting") =>
            LET c == thr[t].call
            IN  thr[t].ret =
                    Returned(SourcePosition(obj, c.theta_x, c.theta_y, c.kwargs_lens))

\* ray_shooting has completed for a massive deflector on a line of sight that
\* moves the ray away from its sky coordinate at the main plane
C2_Witness ==
    \E t \in Threads :
        /\ Done(t, "ray_shooting")
        /\ Massive(thr[t].call.kwargs_lens)
        /\ RDiv(Call(obj._x0_interp, <<thr[t].call.theta_x, thr[t].call.theta_y>>),
                obj._Td) # thr[t].call.theta_x
        /\ Call(obj._alphax_interp_background,
                <<thr[t].call.theta_x, thr[t].call.theta_y>>) # R(0)

\* C3: a completed geo_shapiro_delay or ray_shooting_partial_comoving call
\* raised the unsupported-operation error and returned no value, whatever its
\* arguments and whatever was called before.
C3_UnsupportedAlwaysRaise ==
    \A t \in Threads :
        (thr[t].state = "done" /\ thr[t].call.op \in UnsupportedOps) =>
            /\ thr[t].ret.raised # ""
            /\ thr[t].ret.value = <<>>

\* an unsupported operation was called with arguments and has completed
C3_Witness ==
    \E t \in Threads :
        /\ thr[t].state = "done"
        /\ thr[t].call.op = "geo_shapiro_delay"
        /\ thr[t].call.args # <<>>
        /\ thr[t].ret.raised # ""

\* C4: a completed hessian call returned (f_xx, f_xy, f_yx, f_yy), the forward
\* differences of alpha between the base point and the points one step along
\* x and along y, each divided by the step.
C4_HessianForwardDifferences ==
    \A t \in Threads :
        Done(t, "hessian") =>
            LET c == thr[t].call
                h == c.diff
                base == ReducedDeflection(obj, c.theta_x, c.theta_y, c.kwargs_lens)
                dx == ReducedDeflection(obj, RAdd(c.theta_x, h), c.theta_y, c.kwargs_lens)
                dy == ReducedDeflection(obj, c.theta_x, RAdd(c.theta_y, h), c.kwargs_lens)
            IN  thr[t].ret = Returned(<<RDiv(RSub(dx[1], base[1]), h),
                                        RDiv(RSub(dy[1], base[1]), h),
                                        RDiv(RSub(dx[2], base[2]), h),
                                        RDiv(RSub(dy[2], base[2]), h)>>)

\* a hessian has completed whose two mixed derivatives differ
C4_Witness ==
    \E t \in Threads :
        /\ Done(t, "hessian")
        /\ thr[t].ret.value[2] # thr[t].ret.value[3]

\* positions the main-deflector evaluator is probed at
ProbePoints == {<<R(i), R(j)>> : i, j \in {0 - 1, 0, 1}}

ZeroDeflection(self, kwargs_lens) ==
    \A p \in ProbePoints :
        SinglePlane_alpha(self._main_deflector, p[1], p[2], kwargs_lens) = Zero2

\* the line-of-sight mapping x/T_s + (foreground + background) * T_ds/T_s
LineOfSightMapping(self, theta_x, theta_y) ==
    LET th == <<theta_x, theta_y>>
        ratio == RDiv(self._Tds, self._Ts)
    IN  <<RAdd(RDiv(Call(self._x0_interp, th), self._Ts),
               RMul(RAdd(Call(self._alphax_interp_foreground, th),
                         Call(self._alphax_interp_background, th)), ratio)),
          RAdd(RDiv(Call(self._y0_interp, th), self._Ts),
               RMul(RAdd(Call(self._alphay_interp_foreground, th),
                         Call(self._alphay_interp_background, th)), ratio))>>

\* the four deflection interpolators vanish and x0, y0 are theta * T_d
NoLineOfSight(self) ==
    \A p \in ProbePoints \cup Thetas :
        /\ Call(self._alphax_interp_foreground, p) = R(0)
        /\ Call(self._alphay_interp_foreground, p) = R(0)
        /\ Call(self._alphax_interp_background, p) = R(0)
        /\ Call(self._alphay_interp_background, p) = R(0)
        /\ Call(self._x0_interp, p) = RMul(p[1], self._Td)
        /\ Call(self._y0_interp, p) = RMul(p[2], self._Td)

\* C5: with a main deflector that deflects nowhere, a completed ray_shooting
\* call returned the line-of-sight mapping; without line-of-sight structure
\* it returned (theta_x * T_d / T_s, theta_y * T_d / T_s).
C5_DegenerateMainDeflector ==
    \A t \in Threads :
        (Done(t, "ray_shooting") /\ ZeroDeflection(obj, thr[t].call.kwargs_lens)) =>
            LET c == thr[t].call
            IN  /\ thr[t].ret = Returned(LineOfSightMapping(obj, c.theta_x, c.theta_y))
                /\ NoLineOfSight(obj) =>
                      thr[t].ret = Returned(
                          <<RDiv(RMul(c.theta_x, obj._Td), obj._Ts),
                            RDiv(RMul(c.theta_y, obj._Td), obj._Ts)>>)

\* ray_shooting has completed for a massless deflector behind and in front of
\* line-of-sight structure
C5_Witness ==
    \E t \in Threads :
        /\ Done(t, "ray_shooting")
        /\ ZeroDeflection(obj, thr[t].call.kwargs_lens)
        /\ ~NoLineOfSight(obj)
        /\ Call(obj._alphay_interp_background,
                <<thr[t].call.theta_x, thr[t].call.theta_y>>) # R(0)

\* the end-to-end case of C5: massless deflector, no line-of-sight structure
C5_EndToEndReached ==
    \E t \in Threads :
        /\ Done(t, "ray_shooting")
        /\ ZeroDeflection(obj, thr[t].call.kwargs_lens)
        /\ NoLineOfSight(obj)
        /\ thr[t].ret.value # Zero2

\* the instance the recorded constructor call builds
Fresh == MultiPlaneDecoupled_init(cfg[1].args, cfg[1].env).self

\* an evaluation call made on an instance
Dispatch(self, c) ==
    CASE c.op = "ray_shooting" ->
            ray_shooting(self, c.theta_x, c.theta_y, c.kwargs_lens, c.args)
      [] c.op = "alpha" ->
            alpha(self, c.theta_x, c.theta_y, c.kwargs_lens, c.args)
      [] c.op = "hessian" ->
            [self |-> self,
             ret |-> hessian(
                alpha(self, c.theta_x, c.theta_y, c.kwargs_lens, <<>>).ret.value,
                alpha(self, RAdd(c.theta_x, c.diff), c.theta_y,
                      c.kwargs_lens, <<>>).ret.value,
                alpha(self, c.theta_x, RAdd(c.theta_y, c.diff),
                      c.kwargs_lens, <<>>).ret.value,
                c.diff)]

\* C6: once the constructor has returned, no step changes the instance (distance
\* ratios, interpolators, z_split, kwargs_multiplane_model), and a call that
\* completes, returning or raising, leaves its caller's arguments as they were.
C6_CallsLeaveStateUnchanged ==
    [][ctor = "returned" =>
          /\ obj' = obj
          /\ cfg' = cfg
          /\ ctor' = ctor
          /\ \A t \in Threads :
                thr[t].state = "pending" => thr'[t].call = thr[t].call]_vars

\* a hessian call has completed and the instance is as the constructor built it
C6_Witness ==
    /\ ctor = "returned"
    /\ \E t \in Threads : Done(t, "hessian") /\ Massive(thr[t].call.kwargs_lens)
    /\ obj = Fresh
    /\ obj.kwargs_multiplane_model = Summary(Fresh)

\* C7: a completed evaluation call returned what the same call returns on the
\* instance as constructed, whatever the threads did before and in between;
\* two threads that completed the same call hold the same result.
C7_ResultDependsOnlyOnInputs ==
    \A t \in Threads :
        (thr[t].state = "done" /\ thr[t].call.op \in EvalOps) =>
            /\ thr[t].ret = Dispatch(Fresh, thr[t].call).ret
            /\ \A u \in Threads :
                  (thr[u].state = "done" /\ thr[u].call = thr[t].call) =>
                      thr[u].ret = thr[t].ret

\* both threads have completed the same hessian call
C7_Witness ==
    \E t, u \in Threads :
        /\ t # u
        /\ Done(t, "hessian")
        /\ Done(u, "hessian")
        /\ thr[t].call = thr[u].call
        /\ Massive(thr[t].call.kwargs_lens)

AllAttrs ==
    {"_alphax_interp_foreground", "_alphay_interp_foreground",
     "_alphax_interp_background", "_alphay_interp_background",
     "_x0_interp", "_y0_interp", "_z_split",
     "_reduced_to_phys", "_deltaT_zsplit", "_deltaT_zsplit_zsource",
     "_Ts", "_Td", "_Tds", "_main_deflector", "kwargs_multiplane_model"}

\* the parent bookkeeping or the distance computation cannot be evaluated
CannotEvaluate(c) ==
    \/ MultiPlane_init(Blank, c.args, c.env).raised
    \/ DistanceRatiosRaise(c.args, [_z_split |-> c.args.z_split], c.env)

\* C8: a constructor call whose parent bookkeeping or distance computation
\* cannot be evaluated raised, and then no caller holds an instance; an
\* instance that was returned has every attribute set.
C8_NoPartialTracer ==
    /\ (ctor # "none" /\ CannotEvaluate(cfg[1])) => ctor = "raised"
    /\ ctor = "raised" => \A t \in Threads : thr[t] = Idle
    /\ ctor = "returned" => AllAttrs \subseteq DOMAIN obj

\* the constructor raised with z_split unset, after it had stored the
\* interpolators and before it stored any distance
C8_Witness ==
    /\ ctor = "raised"
    /\ cfg[1].args.z_split = None
    /\ HasAttr(obj, "_x0_interp")
    /\ ~HasAttr(obj, "_Td")

PhysicallyValid(a) == 0 < a.z_split /\ a.z_split < a.z_source

\* C9: for 0 < z_split < z_source the stored T_d, T_s, T_ds are the transverse
\* comoving distances observer-main plane, observer-source, main plane-source,
\* reduced_to_phys is the distance observer-source over the distance main
\* plane-source, and all four are positive.
C9_DistanceRatiosPositive ==
    (ctor = "returned" /\ PhysicallyValid(cfg[1].args)) =>
        LET a == cfg[1].args
        IN  /\ obj._Td = T_xy(a.cosmo, 0, a.z_split)
            /\ obj._Ts = T_xy(a.cosmo, 0, a.z_source)
            /\ obj._Tds = T_xy(a.cosmo, a.z_split, a.z_source)
            /\ obj._reduced_to_phys = RDiv(d_xy(a.cosmo, 0, a.z_source),
                                           d_xy(a.cosmo, a.z_split, a.z_source))
            /\ RPos(obj._Td) /\ RPos(obj._Ts) /\ RPos(obj._Tds)
            /\ RPos(obj._reduced_to_phys)

\* an instance was returned for a valid configuration of a non-default cosmology
C9_Witness ==
    /\ ctor = "returned"
    /\ PhysicallyValid(cfg[1].args)
    /\ cfg[1].args.cosmo # NoCosmo
    /\ obj._reduced_to_phys # R(1)

\* C10: a completed evaluation call returned what the same call, with any or no
\* extra arguments, returns on an instance built from the same arguments but
\* another constructible lens_redshift_list.
C10_IndependentOfLensRedshifts ==
    \A t \in Threads :
        (thr[t].state = "done" /\ thr[t].call.op \in EvalOps) =>
            \A lrl \in LensRedshiftLists(cfg[1].args.lens_model_list), e \in Extras :
                LET other == MultiPlaneDecoupled_init(
                                 [cfg[1].args EXCEPT !.lens_redshift_list = lrl],
                                 cfg[1].env)
                IN  ~other.raised =>
                        Dispatch(other.self, [thr[t].call EXCEPT !.args = e]).ret
                            = thr[t].ret

\* an evaluation with an extra argument has completed for a massive two-profile
\* deflector whose lens redshifts differ from z_split, and another
\* lens_redshift_list is constructible too
C10_Witness ==
    \E t \in Threads :
        /\ thr[t].state = "done"
        /\ thr[t].call.op \in EvalOps
        /\ thr[t].call.args # <<>>
        /\ Massive(thr[t].call.kwargs_lens)
        /\ Len(cfg[1].args.lens_model_list) = 2
        /\ cfg[1].args.lens_redshift_list[1] # cfg[1].args.z_split
        /\ \E lrl \in LensRedshiftLists(cfg[1].args.lens_model_list) :
              /\ lrl # cfg[1].args.lens_redshift_list
              /\ ~MultiPlaneDecoupled_init(
                      [cfg[1].args EXCEPT !.lens_redshift_list = lrl],
                      cfg[1].env).raised

====
